---- MODULE Spec2Model ----
\* Server-side authentication actions (signup, signin, signOAuth, forgotPassword,
\* resetPassword, signout, getSession) and the zod schemas they validate with.
\* A string is a sequence of one-character strings, so that length and the
\* character-class tests are computed position by position.
EXTENDS Integers, Sequences, FiniteSets, TLC

\* ---------------------------------------------------------------- bounds
\* Longest run of one repeated character appended to a generated password.
MaxPad == 7

\* ---------------------------------------------------------------- characters
UpperChars == {"A","B","C","D","E","F","G","H","I","J","K","L","M",
               "N","O","P","Q","R","S","T","U","V","W","X","Y","Z"}
LowerChars == {"a","b","c","d","e","f","g","h","i","j","k","l","m",
               "n","o","p","q","r","s","t","u","v","w","x","y","z"}
DigitChars == {"0","1","2","3","4","5","6","7","8","9"}
SpecialChars == {"@","$","!","%","*","?","&"}

\* ---------------------------------------------------------------- schemas
MinPasswordLength == 8

Rule(kind, chars, message) == [kind |-> kind, chars |-> chars, message |-> message]

\* SignUpFormSchema.password: the chain of string checks, in order.
SignUpPasswordRules ==
  << Rule("min", {}, "Password must be at least 8 characters long"),
     Rule("regex", UpperChars, "Password must contain at least one uppercase letter"),
     Rule("regex", LowerChars, "Password must contain at least one lowercase letter"),
     Rule("regex", DigitChars, "Password must contain at least one number"),
     Rule("regex", SpecialChars,
          "Password must contain at least one special character (@$!%*?&)") >>

\* Variant: the sign-in password held to the character-class rules as well.
SignInPasswordRulesWithClasses ==
  << Rule("min", {}, "Be at least 8 characters long"),
     Rule("regex", UpperChars, "Must contain at least one uppercase letter"),
     Rule("regex", LowerChars, "Must contain at least one lowercase letter"),
     Rule("regex", DigitChars, "Must contain at least one number"),
     Rule("regex", SpecialChars,
          "Must contain at least one special character (@$!%*?&)") >>

\* SignInFormSchema.password: the minimum length alone.
SignInPasswordRules ==
  << Rule("min", {}, "Be at least 8 characters long") >>

\* ResetPasswordSchema.password.
ResetPasswordRules ==
  << Rule("min", {}, "Be at least 8 characters long"),
     Rule("regex", UpperChars, "Must contain at least one uppercase letter"),
     Rule("regex", LowerChars, "Must contain at least one lowercase letter"),
     Rule("regex", DigitChars, "Must contain at least one number"),
     Rule("regex", SpecialChars,
          "Must contain at least one special character (@$!%*?&)") >>

\* An unanchored one-character-class regex matches when some position holds a
\* character of the class; min(8) compares the string's length.
Violates(rule, s) ==
  IF rule.kind = "min"
    THEN Len(s) < MinPasswordLength
    ELSE ~ \E i \in 1..Len(s) : s[i] \in rule.chars

\* Variant: the chain stops at the first failing check.
RECURSIVE StringIssuesFirstOnly(_, _)
StringIssuesFirstOnly(rules, s) ==
  IF rules = << >> THEN << >>
  ELSE IF Violates(Head(rules), s) THEN << Head(rules).message >>
  ELSE StringIssuesFirstOnly(Tail(rules), s)

\* A zod string runs every check of its chain and collects one issue per
\* failing check, in chain order.
RECURSIVE StringIssues(_, _)
StringIssues(rules, s) ==
  IF rules = << >> THEN << >>
  ELSE (IF Violates(Head(rules), s) THEN << Head(rules).message >> ELSE << >>)
       \o StringIssues(Tail(rules), s)

\* z.string().email(): local part, "@", dot-separated labels, alphabetic TLD.
AlnumChars == UpperChars \cup LowerChars \cup DigitChars
LetterChars == UpperChars \cup LowerChars
LocalChars == AlnumChars \cup {"_", "'", "+", "-", "."}

LocalOK(l) ==
  /\ Len(l) >= 1
  /\ \A i \in 1..Len(l) : l[i] \in LocalChars
  /\ l[1] # "."
  /\ l[Len(l)] \in AlnumChars \cup {"_", "+", "-"}
  /\ \A i \in 1..(Len(l) - 1) : ~(l[i] = "." /\ l[i + 1] = ".")

DomainOK(d) ==
  \E j \in 2..(Len(d) - 2) :
    /\ d[j] = "."
    /\ \A k \in (j + 1)..Len(d) : d[k] \in LetterChars
    /\ d[1] \in AlnumChars
    /\ \A k \in 1..(j - 1) : d[k] \in AlnumChars \cup {"-", "."}
    /\ \A k \in 1..(j - 1) : d[k] = "." => d[k + 1] \in AlnumChars

IsEmail(e) ==
  \E i \in 1..Len(e) :
    /\ e[i] = "@"
    /\ LocalOK(SubSeq(e, 1, i - 1))
    /\ DomainOK(SubSeq(e, i + 1, Len(e)))

EmailIssues(e, message) == IF IsEmail(e) THEN << >> ELSE << message >>

\* error.flatten().fieldErrors: the fields that have issues, each with its
\* list of messages.
FieldErrors(issues) ==
  [f \in {g \in DOMAIN issues : issues[g] # << >>} |-> issues[f]]

ParseResult(issues, data) ==
  [success |-> \A f \in DOMAIN issues : issues[f] = << >>,
   data |-> data,
   fieldErrors |-> FieldErrors(issues)]

\* z.object strips the keys the schema does not declare.
SignUpFormSchema(values) ==
  ParseResult(
    [email |-> EmailIssues(values.email, "Please enter a valid email"),
     password |-> StringIssues(SignUpPasswordRules, values.password)],
    [email |-> values.email, password |-> values.password])

SignInFormSchema(values) ==
  ParseResult(
    [email |-> EmailIssues(values.email, "Please enter a valid email"),
     password |-> StringIssues(SignInPasswordRules, values.password)],
    [email |-> values.email, password |-> values.password])

ForgotPasswordSchema(values) ==
  ParseResult(
    [email |-> EmailIssues(values.email, "Please enter valid email")],
    [email |-> values.email])

\* The refinement runs after the field checks and reports under confirmPassword.
ResetPasswordSchema(values) ==
  ParseResult(
    [password |-> StringIssues(ResetPasswordRules, values.password),
     confirmPassword |->
       IF values.password = values.confirmPassword
         THEN << >> ELSE << "Password don't match" >>],
    [password |-> values.password, confirmPassword |-> values.confirmPassword])

\* ---------------------------------------------------------------- provider
\* What the external identity client does during one handler invocation:
\* createClient returns or throws; the auth operation returns a result without
\* error, returns a result carrying an error, or throws.
NoError == [auth |-> FALSE, message |-> ""]

\* auth: the value is an instance of AuthError.
Errors ==
  { [auth |-> TRUE, message |-> "Invalid login credentials"],
    [auth |-> TRUE, message |-> "User already registered"],
    [auth |-> FALSE, message |-> "fetch failed"] }

Behaviours(payloads) ==
  {[client |-> "throw", result |-> "none", error |-> e, data |-> "null"] : e \in Errors}
  \cup {[client |-> "ok", result |-> "ok", error |-> NoError, data |-> d] : d \in payloads}
  \cup {[client |-> "ok", result |-> "error", error |-> e, data |-> d] :
          e \in Errors, d \in payloads}
  \cup {[client |-> "ok", result |-> "throw", error |-> e, data |-> "null"] :
          e \in Errors}

Call(op, arg) == [op |-> op, arg |-> arg]

\* const supabase = await createClient();
\* const { data, error } = await supabase.auth.<op>(arg);
\* if (error) throw error;
ProviderCall(op, arg, b) ==
  IF b.client = "throw"
    THEN [thrown |-> TRUE, error |-> b.error, data |-> "null",
          calls |-> << Call("createClient", << >>) >>]
    ELSE [thrown |-> b.result \in {"error", "throw"},
          error |-> b.error,
          data |-> b.data,
          calls |-> << Call("createClient", << >>), Call(op, arg) >>]

\* ---------------------------------------------------------------- handlers
\* What one invocation leaves behind: how it ended, the envelope it returned,
\* the provider operations it invoked and the console.error entries it wrote.
Returned(response, calls, log) ==
  [pc |-> "returned", response |-> response, calls |-> calls, log |-> log]

\* Variant: no try/catch around the body, the error reaches the caller.
CatchRethrows(text, error, calls) ==
  [pc |-> "thrown", response |-> [thrown |-> error], calls |-> calls, log |-> << >>]

\* Variant: the error's message is returned whatever the error is.
CatchLeaksMessage(text, error, calls) ==
  Returned([success |-> FALSE, message |-> error.message],
           calls,
           << [tag |-> "[Auth]", text |-> text, error |-> error] >>)

\* Variant: the catch block returns without console.error.
CatchSilent(text, error, calls) ==
  Returned([success |-> FALSE,
            message |-> IF error.auth THEN error.message ELSE text],
           calls, << >>)

\* catch (error) { console.error("[Auth] <text>", error);
\*   return { success: false,
\*            message: error instanceof AuthError ? error.message : <text> }; }
Catch(text, error, calls) ==
  Returned([success |-> FALSE,
            message |-> IF error.auth THEN error.message ELSE text],
           calls,
           << [tag |-> "[Auth]", text |-> text, error |-> error] >>)

ValidationFailure(parsed) ==
  Returned([success |-> FALSE,
            message |-> "Form validation error",
            zod_errors |-> parsed.fieldErrors],
           << >>, << >>)

Success(message, calls) ==
  Returned([success |-> TRUE, message |-> message], calls, << >>)

\* Variant: the validation result is not consulted before delegating.
signupWithoutShortCircuit(values, b) ==
  LET validatedFields == SignUpFormSchema(values)
      r == ProviderCall("signUp", validatedFields.data, b)
  IN IF r.thrown THEN Catch("Error while sign up", r.error, r.calls)
     ELSE Success("Account creation successful. Check email to verify.", r.calls)

signup(values, b) ==
  LET validatedFields == SignUpFormSchema(values)
      r == ProviderCall("signUp", validatedFields.data, b)
  IN IF ~validatedFields.success THEN ValidationFailure(validatedFields)
     ELSE IF r.thrown THEN Catch("Error while sign up", r.error, r.calls)
     ELSE Success("Account creation successful. Check email to verify.", r.calls)

signin(values, b) ==
  LET validatedFields == SignInFormSchema(values)
      r == ProviderCall("signInWithPassword", values, b)
  IN IF ~validatedFields.success THEN ValidationFailure(validatedFields)
     ELSE IF r.thrown THEN Catch("Sign in failed", r.error, r.calls)
     ELSE Success("Sign in successful", r.calls)

signOAuth(provider, b) ==
  LET r == ProviderCall("signInWithOAuth",
                        [provider |-> provider, options |-> [redirectTo |-> ""]], b)
  IN IF r.thrown THEN Catch("OAuth signin error", r.error, r.calls)
     ELSE IF r.data = "null"
       THEN Returned([success |-> FALSE, message |-> "Failed to initiate OAuth signin"],
                     r.calls, << >>)
     ELSE Success("OAuth signin successful", r.calls)

forgotPassword(email, b) ==
  LET r == ProviderCall("resetPasswordForEmail",
                        [email |-> email.email, redirectTo |-> "/reset-password"], b)
  IN IF r.thrown
       THEN Catch("Error occured while sending reset password link", r.error, r.calls)
     ELSE Success("Reset link sent. Please check.", r.calls)

resetPassword(newPassword, b) ==
  LET r == ProviderCall("updateUser", [password |-> newPassword.password], b)
  IN IF r.thrown THEN Catch("Error while updating password", r.error, r.calls)
     ELSE Success("Password reset successful. Please Sign in.", r.calls)

signout(b) ==
  LET r == ProviderCall("signOut", << >>, b)
  IN IF r.thrown THEN Catch("Error occured while sign out", r.error, r.calls)
     ELSE Success("Sign out successful", r.calls)

\* Variant: the success envelope carries user: null instead of the user read.
getSessionWithoutUser(b) ==
  LET r == ProviderCall("getUser", << >>, b)
      caught == Catch("Error fetching session", r.error, r.calls)
  IN IF r.thrown
       THEN [caught EXCEPT !.response =
               [success |-> FALSE, message |-> caught.response.message, user |-> "null"]]
     ELSE Returned([success |-> TRUE,
                    message |-> "Fetching user sesssion successful",
                    user |-> "null"],
                   r.calls, << >>)

getSession(b) ==
  LET r == ProviderCall("getUser", << >>, b)
      caught == Catch("Error fetching session", r.error, r.calls)
  IN IF r.thrown
       THEN [caught EXCEPT !.response =
               [success |-> FALSE, message |-> caught.response.message, user |-> "null"]]
     ELSE Returned([success |-> TRUE,
                    message |-> "Fetching user sesssion successful",
                    user |-> r.data],
                   r.calls, << >>)

\* ---------------------------------------------------------------- inputs
\* One representative character per class of the password rules, and "#",
\* which is in none of them.
ClassChars == << "A", "a", "1", "!", "#" >>

Pick(S) == SelectSeq(ClassChars, LAMBDA c : c \in S)

Pad(core, n) ==
  IF core = << >> THEN core ELSE core \o [i \in 1..n |-> core[Len(core)]]

ExamplePasswords ==
  { << "a", "b", "c" >>,
    << "A", "b", "c", "d", "e", "f", "1", "!" >>,
    << "A", "b", "c", "d", "e", "f", "2", "!" >>,
    << "l", "o", "n", "g", "p", "a", "s", "s", "w", "o", "r", "d", "1" >> }

Passwords ==
  { Pad(Pick(S), n) : S \in SUBSET {"A", "a", "1", "!", "#"}, n \in 0..MaxPad }
  \cup ExamplePasswords

Confirmations(p) ==
  { p, << "A", "b", "c", "d", "e", "f", "2", "!" >>, << >> }

Emails ==
  { << "a", "@", "b", ".", "c", "o", "m" >>,
    << "a", "@", "b" >>,
    << "a", "b", ".", "c", "o", "m" >> }

\* A caller's object may carry keys the schema does not declare.
WithExtra(values) == {values, values @@ [rememberMe |-> "on"]}

CredentialInputs ==
  UNION { WithExtra([email |-> e, password |-> p]) : e \in Emails, p \in Passwords }

EmailInputs == { [email |-> e] : e \in Emails }

NewPasswordInputs ==
  UNION { { [password |-> p, confirmPassword |-> c] : c \in Confirmations(p) } :
          p \in Passwords }

OAuthProviders == {"github", "google"}

Users == {"null", "user-1", "user-2"}

\* ---------------------------------------------------------------- state
VARIABLES
  pc,         \* "idle", or how the invocation in progress ended
  handler,    \* the handler invoked
  values,     \* the argument it was invoked with
  behaviour,  \* what the provider did during the invocation
  response,   \* the envelope returned
  calls,      \* the provider operations invoked, in order
  log,        \* the console.error entries written
  prev        \* the handler of the invocation before this one

vars == << pc, handler, values, behaviour, response, calls, log, prev >>

None == [none |-> TRUE]

Init ==
  /\ pc = "idle"
  /\ handler = "none"
  /\ values = None
  /\ behaviour = None
  /\ response = None
  /\ calls = << >>
  /\ log = << >>
  /\ prev = "none"

Invoke(h, v, b, out) ==
  /\ pc' = out.pc
  /\ handler' = h
  /\ values' = v
  /\ behaviour' = b
  /\ response' = out.response
  /\ calls' = out.calls
  /\ log' = out.log
  /\ UNCHANGED prev

Signup ==
  /\ pc = "idle"
  /\ \E v \in CredentialInputs, b \in Behaviours({"session"}) :
       Invoke("signup", v, b, signup(v, b))

Signin ==
  /\ pc = "idle"
  /\ \E v \in CredentialInputs, b \in Behaviours({"session"}) :
       Invoke("signin", v, b, signin(v, b))

SignOAuth ==
  /\ pc = "idle"
  /\ \E v \in OAuthProviders, b \in Behaviours({"url", "null"}) :
       Invoke("signOAuth", v, b, signOAuth(v, b))

ForgotPassword ==
  /\ pc = "idle"
  /\ \E v \in EmailInputs, b \in Behaviours({"sent"}) :
       Invoke("forgotPassword", v, b, forgotPassword(v, b))

ResetPassword ==
  /\ pc = "idle"
  /\ \E v \in NewPasswordInputs, b \in Behaviours({"user-1"}) :
       Invoke("resetPassword", v, b, resetPassword(v, b))

Signout ==
  /\ pc = "idle"
  /\ \E b \in Behaviours({"done"}) :
       Invoke("signout", None, b, signout(b))

GetSession ==
  /\ pc = "idle"
  /\ \E b \in Behaviours(Users) :
       Invoke("getSession", None, b, getSession(b))

\* The caller receives the outcome of the awaited invocation; nothing of the
\* invocation is kept.
Settle ==
  /\ pc # "idle"
  /\ pc' = "idle"
  /\ prev' = handler
  /\ handler' = "none"
  /\ values' = None
  /\ behaviour' = None
  /\ response' = None
  /\ calls' = << >>
  /\ log' = << >>

Next ==
  \/ Signup
  \/ Signin
  \/ SignOAuth
  \/ ForgotPassword
  \/ ResetPassword
  \/ Signout
  \/ GetSession
  \/ Settle

Spec == Init /\ [][Next]_vars

\* ================================================================ properties
Invoked(op) == \E i \in 1..Len(calls) : calls[i].op = op

TimesInvoked(op) == Cardinality({i \in 1..Len(calls) : calls[i].op = op})

HasChar(s, chars) == \E i \in 1..Len(s) : s[i] \in chars

MeetsEveryPasswordRule(s) ==
  /\ Len(s) >= 8
  /\ HasChar(s, UpperChars)
  /\ HasChar(s, LowerChars)
  /\ HasChar(s, DigitChars)
  /\ HasChar(s, SpecialChars)

\* The password passes the schema of the handler invoked.
PasswordAccepted ==
  IF handler = "signup" THEN MeetsEveryPasswordRule(values.password)
  ELSE Len(values.password) >= 8

\* The provider call of the invocation reported or threw an error.
ProviderFailed ==
  /\ calls # << >>
  /\ \/ behaviour.client = "throw"
     \/ behaviour.result \in {"error", "throw"}

ProviderSucceeded ==
  /\ calls # << >>
  /\ behaviour.client = "ok"
  /\ behaviour.result = "ok"

Fallback ==
  [signup |-> "Error while sign up",
   signin |-> "Sign in failed",
   signOAuth |-> "OAuth signin error",
   forgotPassword |-> "Error occured while sending reset password link",
   resetPassword |-> "Error while updating password",
   signout |-> "Error occured while sign out",
   getSession |-> "Error fetching session"]

Operation ==
  [signup |-> "signUp",
   signin |-> "signInWithPassword",
   signOAuth |-> "signInWithOAuth",
   forgotPassword |-> "resetPasswordForEmail",
   resetPassword |-> "updateUser",
   signout |-> "signOut",
   getSession |-> "getUser"]

\* ---------------------------------------------------------------- C1
\* C1: when the input of signup or signin fails the handler's schema (invalid
\* email, or a password violating a rule of that schema), the handler returns
\* success=false, message "Form validation error" and a field-error map with
\* an entry under each failing field, and no provider operation is invoked.
C1_ValidationShortCircuits ==
  (/\ pc # "idle"
   /\ handler \in {"signup", "signin"}
   /\ (~IsEmail(values.email) \/ ~PasswordAccepted))
  => /\ pc = "returned"
     /\ response.success = FALSE
     /\ response.message = "Form validation error"
     /\ "zod_errors" \in DOMAIN response
     /\ ~IsEmail(values.email) =>
          /\ "email" \in DOMAIN response.zod_errors
          /\ response.zod_errors.email # << >>
     /\ ~PasswordAccepted =>
          /\ "password" \in DOMAIN response.zod_errors
          /\ response.zod_errors.password # << >>
     /\ calls = << >>

\* signup was invoked with a valid email and the password "abc"; client
\* creation would have thrown, and was never attempted.
C1_Witness ==
  /\ pc = "returned"
  /\ handler = "signup"
  /\ IsEmail(values.email)
  /\ values.password = << "a", "b", "c" >>
  /\ behaviour.client = "throw"
  /\ response.success = FALSE
  /\ calls = << >>

\* ---------------------------------------------------------------- C2
\* C2: resetPassword with a password meeting every rule and a different
\* confirmPassword returns a validation failure whose field errors are solely
\* confirmPassword: "Password don't match", and updateUser is never invoked
\* (stated for a provider that is up and would accept the update).
C2_ResetRejectsMismatch ==
  (/\ pc # "idle"
   /\ handler = "resetPassword"
   /\ behaviour.client = "ok"
   /\ behaviour.result = "ok"
   /\ MeetsEveryPasswordRule(values.password)
   /\ values.confirmPassword # values.password)
  => /\ pc = "returned"
     /\ response.success = FALSE
     /\ "zod_errors" \in DOMAIN response
     /\ response.zod_errors = [confirmPassword |-> << "Password don't match" >>]
     /\ ~Invoked("updateUser")

\* ---------------------------------------------------------------- C3
\* C3: forgotPassword runs its validator first: with a syntactically invalid
\* email it returns success=false, message "Form validation error" and a
\* field-error map, and resetPasswordForEmail is not invoked (stated for a
\* provider that is up and would send the email).
C3_ForgotValidatesFirst ==
  (/\ pc # "idle"
   /\ handler = "forgotPassword"
   /\ behaviour.client = "ok"
   /\ behaviour.result = "ok"
   /\ ~IsEmail(values.email))
  => /\ pc = "returned"
     /\ response.success = FALSE
     /\ response.message = "Form validation error"
     /\ "zod_errors" \in DOMAIN response
     /\ ~Invoked("resetPasswordForEmail")

\* ---------------------------------------------------------------- C4
\* C4: for every input passing the validator of signup or signin, the handler
\* (once the client is created) invokes its provider operation exactly once,
\* and the argument is the validator's normalized output - the declared keys
\* alone - not the caller's raw object.
C4_ProviderGetsNormalizedData ==
  (/\ pc # "idle"
   /\ handler \in {"signup", "signin"}
   /\ IsEmail(values.email)
   /\ PasswordAccepted
   /\ behaviour.client = "ok")
  => /\ TimesInvoked(Operation[handler]) = 1
     /\ \A i \in 1..Len(calls) :
          calls[i].op = Operation[handler] =>
            calls[i].arg = [email |-> values.email, password |-> values.password]

\* ---------------------------------------------------------------- C5
\* C5: whatever the provider does (success, an error value, a throw, a throw
\* from client creation), every invocation of each of the seven handlers ends
\* by returning an envelope with a boolean success and a string message; no
\* exception reaches the caller - also for signout called right after signout.
C5_AlwaysAnEnvelope ==
  pc # "idle"
  => /\ pc = "returned"
     /\ response.success \in BOOLEAN
     /\ response.message \in STRING

\* signout, invoked right after a signout, met a throwing client creation.
C5_Witness ==
  /\ pc = "returned"
  /\ handler = "signout"
  /\ prev = "signout"
  /\ behaviour.client = "throw"
  /\ response.success = FALSE

\* ---------------------------------------------------------------- C6
\* C6: when the provider call of a handler reports or throws an error, the
\* handler returns success=false with exactly the provider's message if the
\* error is an AuthError and exactly the handler's fallback string otherwise.
C6_ErrorMessageNormalized ==
  (pc # "idle" /\ ProviderFailed)
  => /\ pc = "returned"
     /\ response.success = FALSE
     /\ response.message =
          IF behaviour.error.auth THEN behaviour.error.message ELSE Fallback[handler]

\* signin's provider call returned a non-AuthError, whose message is withheld.
C6_Witness ==
  /\ pc = "returned"
  /\ handler = "signin"
  /\ behaviour.client = "ok"
  /\ behaviour.result = "error"
  /\ ~behaviour.error.auth
  /\ response.message = "Sign in failed"
  /\ response.message # behaviour.error.message

\* ---------------------------------------------------------------- C7
\* C7 (as claimed): on every path on which a handler returns success=false a
\* diagnostic log entry tagged with the handler is emitted before it returns.
C7_EveryFailureLogged ==
  (pc = "returned" /\ response.success = FALSE)
  => /\ Len(log) = 1
     /\ log[1].text = Fallback[handler]

\* C7 (amended): a handler that returns success=false because its provider call
\* reported or threw an error has emitted exactly one log entry, tagged with the
\* handler and carrying the error, and its envelope holds success, the
\* normalized message (and user=null for getSession) and nothing else; the
\* validation failures of signup and signin and signOAuth's missing-data
\* failure emit no log entry.
C7_CaughtFailuresLogged ==
  (pc = "returned" /\ response.success = FALSE)
  => IF ProviderFailed
       THEN /\ log = << [tag |-> "[Auth]",
                         text |-> Fallback[handler],
                         error |-> behaviour.error] >>
            /\ DOMAIN response =
                 IF handler = "getSession"
                   THEN {"success", "message", "user"}
                   ELSE {"success", "message"}
       ELSE /\ log = << >>
            /\ \/ response.message = "Form validation error"
               \/ handler = "signOAuth" /\ behaviour.data = "null"

\* forgotPassword's provider call threw, and the failure was logged.
C7_Witness ==
  /\ pc = "returned"
  /\ handler = "forgotPassword"
  /\ behaviour.result = "throw"
  /\ response.success = FALSE
  /\ Len(log) = 1

\* ---------------------------------------------------------------- C8
\* C8: getSession returns success=true with exactly the provider's user record
\* (null when nobody is signed in) when the provider reports no error, and
\* success=false with user=null when it reports or throws one; user is
\* non-null only in a success=true response.
C8_SessionUser ==
  (pc # "idle" /\ handler = "getSession")
  => /\ pc = "returned"
     /\ ProviderSucceeded =>
          /\ response.success = TRUE
          /\ response.user = behaviour.data
     /\ ProviderFailed =>
          /\ response.success = FALSE
          /\ response.user = "null"
     /\ response.user # "null" => response.success = TRUE

\* getSession found a signed-in user.
C8_Witness ==
  /\ pc = "returned"
  /\ handler = "getSession"
  /\ behaviour.result = "ok"
  /\ behaviour.data = "user-1"
  /\ response.user = "user-1"

\* ---------------------------------------------------------------- C9
\* C9: the sign-up password validator reports every violated rule: the list
\* under password holds exactly one message per violated rule among minimum
\* length, uppercase, lowercase, digit, special character, in that order, and
\* none for a satisfied rule.
C9_Expected(s) ==
  (IF Len(s) >= 8 THEN << >>
     ELSE << "Password must be at least 8 characters long" >>)
  \o (IF HasChar(s, UpperChars) THEN << >>
        ELSE << "Password must contain at least one uppercase letter" >>)
  \o (IF HasChar(s, LowerChars) THEN << >>
        ELSE << "Password must contain at least one lowercase letter" >>)
  \o (IF HasChar(s, DigitChars) THEN << >>
        ELSE << "Password must contain at least one number" >>)
  \o (IF HasChar(s, SpecialChars) THEN << >>
        ELSE << "Password must contain at least one special character (@$!%*?&)" >>)

C9_EveryViolationListed ==
  (/\ pc # "idle"
   /\ handler = "signup"
   /\ ~MeetsEveryPasswordRule(values.password))
  => /\ pc = "returned"
     /\ "zod_errors" \in DOMAIN response
     /\ "password" \in DOMAIN response.zod_errors
     /\ response.zod_errors.password = C9_Expected(values.password)

\* signup with password "abc": minimum length, uppercase, digit and special
\* character are listed, lowercase is not.
C9_Witness ==
  /\ pc = "returned"
  /\ handler = "signup"
  /\ values.password = << "a", "b", "c" >>
  /\ response.zod_errors.password =
       << "Password must be at least 8 characters long",
          "Password must contain at least one uppercase letter",
          "Password must contain at least one number",
          "Password must contain at least one special character (@$!%*?&)" >>

\* ---------------------------------------------------------------- C10
\* C10: signin applies only the minimum length to the password: with a valid
\* email it rejects at validation exactly the passwords shorter than 8; any
\* longer one reaches the provider and, on provider success, the handler
\* returns success=true with message "Sign in successful".
C10_SigninMinLengthOnly ==
  (/\ pc # "idle"
   /\ handler = "signin"
   /\ IsEmail(values.email))
  => /\ pc = "returned"
     /\ (response.message = "Form validation error" /\ calls = << >>)
          <=> Len(values.password) < 8
     /\ (Len(values.password) >= 8 /\ behaviour.client = "ok")
          => TimesInvoked("signInWithPassword") = 1
     /\ (/\ Len(values.password) >= 8
         /\ behaviour.client = "ok"
         /\ behaviour.result = "ok")
          => response = [success |-> TRUE, message |-> "Sign in successful"]

\* signin with "longpassword1" and a succeeding provider.
C10_Witness ==
  /\ pc = "returned"
  /\ handler = "signin"
  /\ IsEmail(values.email)
  /\ values.password =
       << "l", "o", "n", "g", "p", "a", "s", "s", "w", "o", "r", "d", "1" >>
  /\ behaviour.result = "ok"
  /\ response.success = TRUE
  /\ response.message = "Sign in successful"

====
